---------------------------- MODULE Spec2Model ----------------------------
(***************************************************************************)
(* State-machine model of gtsam::CuSparseSolver                            *)
(* (gtsam/linear/CuSparseSolver.cpp): the device-buffer protocol of        *)
(* solve() and EigenSparseToCuSparseTranspose(), and the remapping of the  *)
(* flat solution vector into a VectorValues.                               *)
(***************************************************************************)
EXTENDS Integers, Sequences, FiniteSets, TLC

(* ------------------------------ bounds -------------------------------- *)
\* Keys are 1..NumKeys.
NumKeys == 2
\* Variable dimensions reported by getDim are 1..MaxDim.
MaxDim == 2
\* Longest factor graph given to the remap specification.
MaxFactors == 2
\* Longest factor graph given to the full solve specification.
MaxSolveFactors == 1

VARIABLES
  gpuBuild,       \* TRUE iff GTSAM_USE_CUSPARSE is defined
  solverType,     \* CuSparseSolver::solverType
  ordering,       \* CuSparseSolver::ordering
  gfg,            \* the GaussianFactorGraph given to solve
  pc,             \* position of each call of solve
  ptr,            \* device pointer locals of each call (0 is NULL)
  heap,           \* live device allocations (addresses)
  handles,        \* live cuSolver handles / cuSPARSE descriptors
  cols,           \* AtA.cols() of each call
  nnz,            \* AtA.nonZeros() of each call
  singularity,    \* local int singularity
  x,              \* local Vector x
  dims,           \* local std::map dims
  columnIndices,  \* local std::map columnIndices
  vv,             \* local VectorValues vv
  outcome,        \* how the call ended: "none", "returned" or the error
  log             \* history of the device and assembly steps of each call

vars == <<gpuBuild, solverType, ordering, gfg, pc, ptr, heap, handles, cols,
          nnz, singularity, x, dims, columnIndices, vv, outcome, log>>

inputs == <<gpuBuild, solverType, ordering, gfg>>

(* ------------------------------ inputs -------------------------------- *)
\* The calls of solve.  Call 1 runs in Spec and SpecRemap, where call 2 stays
\* idle; both run in SpecConc.
Procs == {1, 2}

Keys == 1..NumKeys

Dims == 1..MaxDim

SolverTypes == {"QR", "CHOLESKY"}

Range(s) == {s[i] : i \in DOMAIN s}

\* Sequences over S of length at most n.
SeqUpTo(S, n) == UNION {[1..k -> S] : k \in 0..n}

NoDuplicates(s) == \A i, j \in DOMAIN s : i # j => s[i] # s[j]

\* A null boost::shared_ptr<GaussianFactor>.
NullFactor == [isNull |-> TRUE, keys |-> <<>>, dim |-> <<>>]

\* The factors over one key or over two keys of K, the keys listed in
\* ascending order; dim[i] is getDim of the i-th key.  (Lines 185-187 write one
\* entry of dims per key, so the order among the distinct keys of one factor
\* does not show in dims.)
FactorsOver(K) ==
  {NullFactor} \cup
  UNION {{[isNull |-> FALSE, keys |-> ks, dim |-> ds] :
            ks \in {s \in [1..k -> K] : \A i \in 1..(k - 1) : s[i] < s[i + 1]},
            ds \in [1..k -> Dims]} : k \in {1, 2}}

\* The factor graphs of at most n factors whose keys are in K.
GraphsOver(K, n) == SeqUpTo(FactorsOver(K), n)

\* Orderings: sequences of distinct keys.
Orderings == {s \in SeqUpTo(Keys, NumKeys) : NoDuplicates(s)}

\* Keys referenced by the non-null factors of a graph.
ReferencedKeys(g) ==
  UNION {Range(g[i].keys) : i \in {j \in DOMAIN g : ~g[j].isNull}}

(* ------------------------------ std::map ------------------------------ *)
\* An empty std::map.
EmptyMap == [k \in {} |-> 0]

\* m[k] = v on a std::map.
MapPut(m, k, v) == [kk \in (DOMAIN m) \cup {k} |-> IF kk = k THEN v ELSE m[kk]]

\* The map after an evaluation of m[k]: operator[] value-initialises a missing
\* entry (0 for size_t).
MapTouch(m, k) == IF k \in DOMAIN m THEN m ELSE MapPut(m, k, 0)

\* The value of m[k] (operator[]).
MapAt(m, k) == MapTouch(m, k)[k]

(* --------------------------- result remapping ------------------------- *)
\* FactorDims that keeps the dimension a key already has: first writer wins.
RECURSIVE FactorDimsFirstWins(_, _, _)
FactorDimsFirstWins(f, i, d) ==
  IF i > Len(f.keys) THEN d
  ELSE FactorDimsFirstWins(f, i + 1,
         IF f.keys[i] \in DOMAIN d THEN d ELSE MapPut(d, f.keys[i], f.dim[i]))

\* Lines 185-187: dims[*it] = factor->getDim(it) for the keys i.. of factor f.
RECURSIVE FactorDims(_, _, _)
FactorDims(f, i, d) ==
  IF i > Len(f.keys) THEN d
  ELSE FactorDims(f, i + 1, MapPut(d, f.keys[i], f.dim[i]))

\* Lines 181-188: the loop over the factors i.. of the graph; null factors are
\* skipped.
RECURSIVE DimsLoop(_, _, _)
DimsLoop(g, i, d) ==
  IF i > Len(g) THEN d
  ELSE IF g[i].isNull THEN DimsLoop(g, i + 1, d)
  ELSE DimsLoop(g, i + 1, FactorDims(g[i], 1, d))

\* ColumnStep that advances the column index by one per key.
ColumnStepByOne(st, key) ==
  [columnIndices   |-> MapPut(st.columnIndices, key, st.currentColIndex),
   dims            |-> MapTouch(st.dims, key),
   currentColIndex |-> st.currentColIndex + 1]

\* One iteration of the loop of lines 196-199 on the loop state
\* [columnIndices, dims, currentColIndex].
ColumnStep(st, key) ==
  [columnIndices   |-> MapPut(st.columnIndices, key, st.currentColIndex),
   dims            |-> MapTouch(st.dims, key),
   currentColIndex |-> st.currentColIndex + MapAt(st.dims, key)]

\* Lines 194-200: the loop over the keys i.. of the ordering.
RECURSIVE ColumnLoop(_, _, _)
ColumnLoop(ord, i, st) ==
  IF i > Len(ord) THEN st
  ELSE ColumnLoop(ord, i + 1, ColumnStep(st, ord[i]))

\* Segment that returns one entry too few.
SegmentShort(v, start, n) == SubSeq(v, start + 1, start + n - 1)

\* Eigen's v.segment(start, n): the n entries of v from 0-based index start.
Segment(v, start, n) == SubSeq(v, start + 1, start + n)

\* RemapLoop that slices every segment from column 0.
RemapLoopNoOffset(xv, ci, d) ==
  [key \in DOMAIN d |-> Segment(xv, 0, d[key])]

\* Lines 202-204: one vv.insert per entry of dims (the keys of a std::map
\* are distinct, so no insert meets an existing key).
RemapLoop(xv, ci, d) ==
  [key \in DOMAIN d |-> Segment(xv, MapAt(ci, key), d[key])]

(* ------------------------------ assembly ------------------------------ *)
\* The scalar columns of the keys i.. of the ordering, for the dimension map
\* d of the graph; a key no factor references has no column.
RECURSIVE SumDims(_, _, _)
SumDims(d, ord, i) ==
  IF i > Len(ord) THEN 0 ELSE MapAt(d, ord[i]) + SumDims(d, ord, i + 1)

\* A.cols() = AtA.cols(): the scalar columns of the assembled system.
AssembledCols(g, ord) == SumDims(DimsLoop(g, 1, EmptyMap), ord, 1)

\* Two keys meet in some non-null factor.
Coupled(g, k1, k2) ==
  \E i \in DOMAIN g : ~g[i].isNull /\ {k1, k2} \subseteq Range(g[i].keys)

\* The structural entries of the block of AtA of the i-th and j-th ordering
\* keys, i <= j, in upper-triangular storage.
BlockNonZeros(g, d, ord, i, j) ==
  IF ~Coupled(g, ord[i], ord[j]) THEN 0
  ELSE IF i = j THEN (d[ord[i]] * (d[ord[i]] + 1)) \div 2
  ELSE d[ord[i]] * d[ord[j]]

\* The entries of the blocks (i, j), (i, j + 1), ... and of the block rows
\* after i.
RECURSIVE SumBlocks(_, _, _, _, _)
SumBlocks(g, d, ord, i, j) ==
  IF i > Len(ord) THEN 0
  ELSE IF j > Len(ord) THEN SumBlocks(g, d, ord, i + 1, i + 1)
  ELSE BlockNonZeros(g, d, ord, i, j) + SumBlocks(g, d, ord, i, j + 1)

\* AtA.nonZeros(): the structural entries of the upper triangle of AtA.
AssembledNonZeros(g, ord) == SumBlocks(g, DimsLoop(g, 1, EmptyMap), ord, 1, 1)

(* ------------------------------ device -------------------------------- *)
\* The device pointer locals of solve, in declaration order.
PtrOrder == <<"AtA_row", "AtA_col", "AtA_val", "x_gpu", "b_gpu">>

PtrNames == Range(PtrOrder)

NullPtr == [n \in PtrNames |-> 0]

\* Host address of the pointer local n of call p (never a device address):
\* what the int** / double** parameters of EigenSparseToCuSparseTranspose hold.
HostAddrOf(p, n) ==
  0 - (Len(PtrOrder) * p + (CHOOSE i \in DOMAIN PtrOrder : PtrOrder[i] = n))

\* The address a successful cudaMalloc returns: one that is not live.
NewAddr(h) == CHOOSE a \in 1..(Cardinality(h) + 1) :
                a \notin h /\ \A b \in 1..(a - 1) : b \in h

\* The device heap after cudaFree(a): only a live allocation is released;
\* NULL is a no-op and any other value is rejected with an error status.
CudaFree(h, a) == IF a \in h THEN h \ {a} ELSE h

\* One entry of the history of a call.
Event(op, buf, addr, len, ok) ==
  [op |-> op, buf |-> buf, addr |-> addr, len |-> len, ok |-> ok]

\* The history entry of cudaFree(a) on heap h.
FreeEvent(h, buf, a) == Event("cudaFree", buf, a, 0, a = 0 \/ a \in h)

(* ------------------------------ errors --------------------------------- *)
\* std::invalid_argument("This solver does not support QR.")
ErrUnsupportedMode == "UnsupportedMode"
\* std::invalid_argument("This GTSAM is compiled without Cholmod support")
ErrBackendUnavailable == "BackendUnavailable"
\* std::runtime_error("cudaMalloc error: out of memory? ...")
ErrOutOfMemory == "OutOfMemory"
\* thrown by checkCUDAError / checkCuSolverError / checkCuSparseError
ErrCuda == "CudaError"
ErrCuSolver == "CuSolverError"
ErrCuSparse == "CuSparseError"
\* std::runtime_error("ILS in CUDA Solver, singularity: ...")
ErrSingularity == "Singularity"
\* std::exception()
ErrException == "Exception"

Errors == {ErrUnsupportedMode, ErrBackendUnavailable, ErrOutOfMemory, ErrCuda,
           ErrCuSolver, ErrCuSparse, ErrSingularity, ErrException}

(* ------------------------------ actions -------------------------------- *)
\* Call p moves on to position next.
Goto(p, next) == pc' = [pc EXCEPT ![p] = next]

\* Call p ends by throwing err.
Throw(p, err) ==
  /\ pc' = [pc EXCEPT ![p] = "done"]
  /\ outcome' = [outcome EXCEPT ![p] = err]

\* Call p appends the entries es to its history.
Record(p, es) == log' = [log EXCEPT ![p] = log[p] \o es]

\* SolveNoGpu with a CPU fallback in place of the throw: the call goes on to
\* assemble the system.
SolveNoGpuFallback(p) ==
  /\ pc[p] = "solve"
  /\ ~gpuBuild
  /\ Goto(p, "assemble")
  /\ UNCHANGED <<inputs, ptr, heap, handles, cols, nnz, singularity, x, dims,
                 columnIndices, vv, outcome, log>>

\* Lines 212-214: solve in a build without GTSAM_USE_CUSPARSE.
SolveNoGpu(p) ==
  /\ pc[p] = "solve"
  /\ ~gpuBuild
  /\ Throw(p, ErrBackendUnavailable)
  /\ UNCHANGED <<inputs, ptr, heap, handles, cols, nnz, singularity, x, dims,
                 columnIndices, vv, log>>

\* SolveDispatch without the QR branch of line 112: QR is handled like
\* CHOLESKY.
SolveDispatchNoQrCheck(p) ==
  /\ pc[p] = "solve"
  /\ gpuBuild
  /\ Goto(p, "assemble")
  /\ UNCHANGED <<inputs, ptr, heap, handles, cols, nnz, singularity, x, dims,
                 columnIndices, vv, outcome, log>>

\* Lines 111-114 and 209: the dispatch on solverType.
SolveDispatch(p) ==
  /\ pc[p] = "solve"
  /\ gpuBuild
  /\ IF solverType = "QR" THEN Throw(p, ErrUnsupportedMode)
     ELSE IF solverType = "CHOLESKY"
          THEN Goto(p, "assemble") /\ UNCHANGED outcome
          ELSE Throw(p, ErrException)
  /\ UNCHANGED <<inputs, ptr, heap, handles, cols, nnz, singularity, x, dims,
                 columnIndices, vv, log>>

\* Lines 116-126: sparseJacobianEigen, A, b and AtA on the host.
Assemble(p) ==
  /\ pc[p] = "assemble"
  /\ cols' = [cols EXCEPT ![p] = AssembledCols(gfg, ordering)]
  /\ nnz' = [nnz EXCEPT ![p] = AssembledNonZeros(gfg, ordering)]
  /\ Record(p, <<Event("assemble", "AtA", 0, 0, TRUE)>>)
  /\ Goto(p, "cusolverSpCreate")
  /\ UNCHANGED <<inputs, ptr, heap, handles, singularity, x, dims,
                 columnIndices, vv, outcome>>

\* Lines 130-131: cusolverSpCreate(&solverHandle).
CreateSolverHandle(p) ==
  /\ pc[p] = "cusolverSpCreate"
  /\ \E ok \in BOOLEAN :
       IF ok
       THEN /\ handles' = handles \cup {<<p, "solverHandle">>}
            /\ Goto(p, "cusparseCreateMatDescr")
            /\ UNCHANGED outcome
       ELSE /\ Throw(p, ErrCuSolver)
            /\ UNCHANGED handles
  /\ UNCHANGED <<inputs, ptr, heap, cols, nnz, singularity, x, dims,
                 columnIndices, vv, log>>

\* Lines 133-134: cusparseCreateMatDescr(&descrA).
CreateMatDescr(p) ==
  /\ pc[p] = "cusparseCreateMatDescr"
  /\ \E ok \in BOOLEAN :
       IF ok
       THEN /\ handles' = handles \cup {<<p, "descrA">>}
            /\ Goto(p, "cusparseSetMatType")
            /\ UNCHANGED outcome
       ELSE /\ Throw(p, ErrCuSparse)
            /\ UNCHANGED handles
  /\ UNCHANGED <<inputs, ptr, heap, cols, nnz, singularity, x, dims,
                 columnIndices, vv, log>>

\* Line 135: cusparseSetMatType(descrA, CUSPARSE_MATRIX_TYPE_GENERAL).
SetMatType(p) ==
  /\ pc[p] = "cusparseSetMatType"
  /\ \E ok \in BOOLEAN :
       IF ok THEN Goto(p, "mallocRow") /\ UNCHANGED outcome
       ELSE Throw(p, ErrCuSparse)
  /\ UNCHANGED <<inputs, ptr, heap, handles, cols, nnz, singularity, x, dims,
                 columnIndices, vv, log>>

\* The cudaFree calls on the addresses frees[i][2], i.., in order, from heap
\* h: the heap left and the history entries.
RECURSIVE FreeSeq(_, _, _)
FreeSeq(h, frees, i) ==
  IF i > Len(frees) THEN [heap |-> h, events |-> <<>>]
  ELSE LET rest == FreeSeq(CudaFree(h, frees[i][2]), frees, i + 1)
       IN  [heap   |-> rest.heap,
            events |-> <<FreeEvent(h, frees[i][1], frees[i][2])>> \o rest.events]

\* cudaMalloc of len elements into the pointer local buf at position here;
\* on failure the calls cudaFree(frees[i][2]) are made and err is thrown.
Malloc(p, here, buf, len, next, err, frees) ==
  /\ pc[p] = here
  /\ \E ok \in BOOLEAN :
       IF ok
       THEN LET a == NewAddr(heap)
            IN  /\ heap' = heap \cup {a}
                /\ ptr' = [ptr EXCEPT ![p][buf] = a]
                /\ Record(p, <<Event("cudaMalloc", buf, a, len, TRUE)>>)
                /\ Goto(p, next)
                /\ UNCHANGED outcome
       ELSE LET r == FreeSeq(heap, frees, 1)
            IN  /\ heap' = r.heap
                /\ Record(p, <<Event("cudaMalloc", buf, 0, len, FALSE)>> \o r.events)
                /\ Throw(p, err)
                /\ UNCHANGED ptr
  /\ UNCHANGED <<inputs, handles, cols, nnz, singularity, x, dims,
                 columnIndices, vv>>

\* Memcpy without the check of the status: the call goes on after a failed
\* copy.
MemcpyUnchecked(p, here, op, buf, len, next) ==
  /\ pc[p] = here
  /\ \E ok \in BOOLEAN : Record(p, <<Event(op, buf, ptr[p][buf], len, ok)>>)
  /\ Goto(p, next)
  /\ UNCHANGED <<inputs, ptr, heap, handles, cols, nnz, singularity, dims,
                 columnIndices, vv, outcome>>

\* CHECK_CUDA_ERROR(cudaMemcpy(...)) of len elements between the host and the
\* device buffer buf, in direction op.
Memcpy(p, here, op, buf, len, next) ==
  /\ pc[p] = here
  /\ \E ok \in BOOLEAN :
       /\ Record(p, <<Event(op, buf, ptr[p][buf], len, ok)>>)
       /\ IF ok THEN Goto(p, next) /\ UNCHANGED outcome
          ELSE Throw(p, ErrCuda)
  /\ UNCHANGED <<inputs, ptr, heap, handles, cols, nnz, singularity, dims,
                 columnIndices, vv>>

\* Line 89 and line 93: the argument of cudaFree(row).
FreeArgRow(p) == HostAddrOf(p, "AtA_row")

\* Line 94: the argument of cudaFree(col).
FreeArgCol(p) == HostAddrOf(p, "AtA_col")

\* Lines 84-87: cudaMalloc of the row array (num_outer = cols + 1 ints).
MallocRow(p) ==
  Malloc(p, "mallocRow", "AtA_row", cols[p] + 1, "mallocCol", ErrOutOfMemory, <<>>)
  /\ UNCHANGED x

\* Lines 88-91: cudaMalloc of the column array (num_non0 ints).
MallocCol(p) ==
  Malloc(p, "mallocCol", "AtA_col", nnz[p], "mallocVal", ErrOutOfMemory,
         <<<<"AtA_row", FreeArgRow(p)>>>>)
  /\ UNCHANGED x

\* Lines 92-96: cudaMalloc of the value array (num_non0 doubles).
MallocVal(p) ==
  Malloc(p, "mallocVal", "AtA_val", nnz[p], "memcpyVal", ErrOutOfMemory,
         <<<<"AtA_row", FreeArgRow(p)>>, <<"AtA_col", FreeArgCol(p)>>>>)
  /\ UNCHANGED x

\* Lines 98-101: copy of mat.valuePtr() to *val.
MemcpyVal(p) ==
  Memcpy(p, "memcpyVal", "memcpyH2D", "AtA_val", nnz[p], "memcpyRow")
  /\ UNCHANGED x

\* The copy of the outer-index array one element short: num_outer - 1.
MemcpyRowShort(p) ==
  Memcpy(p, "memcpyRow", "memcpyH2D", "AtA_row", cols[p], "memcpyCol")
  /\ UNCHANGED x

\* Lines 102-104: copy of mat.outerIndexPtr() to *row.
MemcpyRow(p) ==
  Memcpy(p, "memcpyRow", "memcpyH2D", "AtA_row", cols[p] + 1, "memcpyCol")
  /\ UNCHANGED x

\* Lines 105-108: copy of mat.innerIndexPtr() to *col.
MemcpyCol(p) ==
  Memcpy(p, "memcpyCol", "memcpyH2D", "AtA_col", nnz[p], "mallocX")
  /\ UNCHANGED x

\* Line 144: cudaMalloc of x_gpu.
MallocX(p) ==
  Malloc(p, "mallocX", "x_gpu", cols[p], "mallocB", ErrCuda, <<>>)
  /\ UNCHANGED x

\* Line 145: cudaMalloc of b_gpu.
MallocB(p) ==
  Malloc(p, "mallocB", "b_gpu", cols[p], "memcpyB", ErrCuda, <<>>)
  /\ UNCHANGED x

\* Lines 147-149: copy of b to b_gpu.
MemcpyB(p) ==
  Memcpy(p, "memcpyB", "memcpyH2D", "b_gpu", cols[p], "cholesky")
  /\ UNCHANGED x

\* The indices the primitive may report: -1, or the pivot where it stopped.
SingularityIndices(n) == {-1} \cup 0..(n - 1)

\* Lines 151-160: cusolverSpDcsrlsvchol; a success status comes with any
\* singularity index.
Cholesky(p) ==
  /\ pc[p] = "cholesky"
  /\ \E ok \in BOOLEAN :
       /\ Record(p, <<Event("cusolverSpDcsrlsvchol", "x_gpu", ptr[p]["x_gpu"],
                            cols[p], ok)>>)
       /\ IF ok
          THEN /\ \E s \in SingularityIndices(cols[p]) :
                    singularity' = [singularity EXCEPT ![p] = s]
               /\ Goto(p, "download")
               /\ UNCHANGED outcome
          ELSE /\ Throw(p, ErrCuSolver)
               /\ UNCHANGED singularity
  /\ UNCHANGED <<inputs, ptr, heap, handles, cols, nnz, x, dims,
                 columnIndices, vv>>

\* The entries of the solution: entry i is tagged with its position.
Solution(n) == [i \in 1..n |-> i]

\* Lines 162-165: x.resize(A.cols()) and the copy of x_gpu to x.
Download(p) ==
  /\ Memcpy(p, "download", "memcpyD2H", "x_gpu", cols[p], "free")
  /\ x' = [x EXCEPT ![p] = IF pc'[p] = "free" THEN Solution(cols[p]) ELSE x[p]]

\* The release with one buffer confused for another: x_gpu is passed to
\* cudaFree twice and b_gpu never.
FreeBuffersTwice(p) ==
  /\ pc[p] = "free"
  /\ LET r == FreeSeq(heap, <<<<"AtA_val", ptr[p]["AtA_val"]>>,
                              <<"AtA_row", ptr[p]["AtA_row"]>>,
                              <<"AtA_col", ptr[p]["AtA_col"]>>,
                              <<"x_gpu", ptr[p]["x_gpu"]>>,
                              <<"x_gpu", ptr[p]["x_gpu"]>>>>, 1)
     IN  heap' = r.heap /\ Record(p, r.events)
  /\ Goto(p, "checkSingularity")
  /\ UNCHANGED <<inputs, ptr, handles, cols, nnz, singularity, x, dims,
                 columnIndices, vv, outcome>>

\* Lines 167-171: the five cudaFree calls.
FreeBuffers(p) ==
  /\ pc[p] = "free"
  /\ LET r == FreeSeq(heap, <<<<"AtA_val", ptr[p]["AtA_val"]>>,
                              <<"AtA_row", ptr[p]["AtA_row"]>>,
                              <<"AtA_col", ptr[p]["AtA_col"]>>,
                              <<"b_gpu", ptr[p]["b_gpu"]>>,
                              <<"x_gpu", ptr[p]["x_gpu"]>>>>, 1)
     IN  heap' = r.heap /\ Record(p, r.events)
  /\ Goto(p, "checkSingularity")
  /\ UNCHANGED <<inputs, ptr, handles, cols, nnz, singularity, x, dims,
                 columnIndices, vv, outcome>>

\* Lines 173-174: the singularity check.
CheckSingularity(p) ==
  /\ pc[p] = "checkSingularity"
  /\ IF singularity[p] # -1 THEN Throw(p, ErrSingularity)
     ELSE Goto(p, "findDims") /\ UNCHANGED outcome
  /\ UNCHANGED <<inputs, ptr, heap, handles, cols, nnz, singularity, x, dims,
                 columnIndices, vv, log>>

\* Lines 180-188: the dimension of each variable.
FindDims(p) ==
  /\ pc[p] = "findDims"
  /\ dims' = [dims EXCEPT ![p] = DimsLoop(gfg, 1, EmptyMap)]
  /\ Goto(p, "columnIndices")
  /\ UNCHANGED <<inputs, ptr, heap, handles, cols, nnz, singularity, x,
                 columnIndices, vv, outcome, log>>

\* ComputeColumnIndices that walks the keys of the ordering from the last to
\* the first: a sequence other than the one the columns were assembled in.
ComputeColumnIndicesReversed(p) ==
  /\ pc[p] = "columnIndices"
  /\ LET n   == Len(ordering)
         rev == [i \in 1..n |-> ordering[n + 1 - i]]
         st  == ColumnLoop(rev, 1, [columnIndices   |-> EmptyMap,
                                    dims            |-> dims[p],
                                    currentColIndex |-> 0])
     IN  /\ columnIndices' = [columnIndices EXCEPT ![p] = st.columnIndices]
         /\ dims' = [dims EXCEPT ![p] = st.dims]
  /\ Goto(p, "remap")
  /\ UNCHANGED <<inputs, ptr, heap, handles, cols, nnz, singularity, x, vv,
                 outcome, log>>

\* Lines 192-200: the first scalar column of each variable.
ComputeColumnIndices(p) ==
  /\ pc[p] = "columnIndices"
  /\ LET st == ColumnLoop(ordering, 1, [columnIndices   |-> EmptyMap,
                                        dims            |-> dims[p],
                                        currentColIndex |-> 0])
     IN  /\ columnIndices' = [columnIndices EXCEPT ![p] = st.columnIndices]
         /\ dims' = [dims EXCEPT ![p] = st.dims]
  /\ Goto(p, "remap")
  /\ UNCHANGED <<inputs, ptr, heap, handles, cols, nnz, singularity, x, vv,
                 outcome, log>>

\* Lines 202-206: the inserts into vv and the return.
Remap(p) ==
  /\ pc[p] = "remap"
  /\ vv' = [vv EXCEPT ![p] = RemapLoop(x[p], columnIndices[p], dims[p])]
  /\ pc' = [pc EXCEPT ![p] = "done"]
  /\ outcome' = [outcome EXCEPT ![p] = "returned"]
  /\ UNCHANGED <<inputs, ptr, heap, handles, cols, nnz, singularity, x, dims,
                 columnIndices, log>>

(* --------------------------- specifications ---------------------------- *)
\* The locals of a call that has not started.
InitLocals ==
  /\ ptr = [p \in Procs |-> NullPtr]
  /\ heap = {}
  /\ handles = {}
  /\ cols = [p \in Procs |-> 0]
  /\ nnz = [p \in Procs |-> 0]
  /\ singularity = [p \in Procs |-> 0]
  /\ x = [p \in Procs |-> <<>>]
  /\ dims = [p \in Procs |-> EmptyMap]
  /\ columnIndices = [p \in Procs |-> EmptyMap]
  /\ vv = [p \in Procs |-> EmptyMap]
  /\ outcome = [p \in Procs |-> "none"]
  /\ log = [p \in Procs |-> <<>>]

\* A solver constructed with any type and ordering (lines 33-37), and one
\* call of solve on any graph whose keys are in the ordering.
Init ==
  /\ gpuBuild \in BOOLEAN
  /\ solverType \in SolverTypes
  /\ ordering \in Orderings
  /\ gfg \in GraphsOver(Range(ordering), MaxSolveFactors)
  /\ pc = [p \in Procs |-> IF p = 1 THEN "solve" ELSE "idle"]
  /\ InitLocals

Step(p) ==
  \/ SolveNoGpu(p)
  \/ SolveDispatch(p)
  \/ Assemble(p)
  \/ CreateSolverHandle(p)
  \/ CreateMatDescr(p)
  \/ SetMatType(p)
  \/ MallocRow(p)
  \/ MallocCol(p)
  \/ MallocVal(p)
  \/ MemcpyVal(p)
  \/ MemcpyRow(p)
  \/ MemcpyCol(p)
  \/ MallocX(p)
  \/ MallocB(p)
  \/ MemcpyB(p)
  \/ Cholesky(p)
  \/ Download(p)
  \/ FreeBuffers(p)
  \/ CheckSingularity(p)
  \/ FindDims(p)
  \/ ComputeColumnIndices(p)
  \/ Remap(p)

Next == \E p \in Procs : Step(p)

Spec == Init /\ [][Next]_vars

(* ---------------------- the remap specification ------------------------ *)
\* The pointer locals after the five allocations of a call on an empty heap.
SuccessPtr ==
  [n \in PtrNames |->
     CASE n = "AtA_row" -> 1 [] n = "AtA_col" -> 2 [] n = "AtA_val" -> 3
       [] n = "x_gpu" -> 4 [] n = "b_gpu" -> 5]

\* The history of a call whose device steps all succeeded, for a system of
\* c columns and z non-zeros.
SuccessLog(c, z) ==
  <<Event("assemble", "AtA", 0, 0, TRUE),
    Event("cudaMalloc", "AtA_row", 1, c + 1, TRUE),
    Event("cudaMalloc", "AtA_col", 2, z, TRUE),
    Event("cudaMalloc", "AtA_val", 3, z, TRUE),
    Event("memcpyH2D", "AtA_val", 3, z, TRUE),
    Event("memcpyH2D", "AtA_row", 1, c + 1, TRUE),
    Event("memcpyH2D", "AtA_col", 2, z, TRUE),
    Event("cudaMalloc", "x_gpu", 4, c, TRUE),
    Event("cudaMalloc", "b_gpu", 5, c, TRUE),
    Event("memcpyH2D", "b_gpu", 5, c, TRUE),
    Event("cusolverSpDcsrlsvchol", "x_gpu", 4, c, TRUE),
    Event("memcpyD2H", "x_gpu", 4, c, TRUE),
    Event("cudaFree", "AtA_val", 3, 0, TRUE),
    Event("cudaFree", "AtA_row", 1, 0, TRUE),
    Event("cudaFree", "AtA_col", 2, 0, TRUE),
    Event("cudaFree", "b_gpu", 5, 0, TRUE),
    Event("cudaFree", "x_gpu", 4, 0, TRUE)>>

\* Call 1 at line 178, past the singularity check, for any ordering and any
\* graph of up to MaxFactors factors whose keys are in the ordering.  The
\* history of this specification starts here.
InitRemap ==
  /\ gpuBuild = TRUE
  /\ solverType = "CHOLESKY"
  /\ ordering \in Orderings
  /\ gfg \in GraphsOver(Range(ordering), MaxFactors)
  /\ pc = [p \in Procs |-> IF p = 1 THEN "findDims" ELSE "idle"]
  /\ ptr = [p \in Procs |-> IF p = 1 THEN SuccessPtr ELSE NullPtr]
  /\ heap = {}
  /\ handles = {<<1, "solverHandle">>, <<1, "descrA">>}
  /\ LET c == AssembledCols(gfg, ordering)
         z == AssembledNonZeros(gfg, ordering)
     IN  /\ cols = [p \in Procs |-> IF p = 1 THEN c ELSE 0]
         /\ nnz = [p \in Procs |-> IF p = 1 THEN z ELSE 0]
         /\ x = [p \in Procs |-> IF p = 1 THEN Solution(c) ELSE <<>>]
  /\ log = [p \in Procs |-> <<>>]
  /\ singularity = [p \in Procs |-> IF p = 1 THEN -1 ELSE 0]
  /\ dims = [p \in Procs |-> EmptyMap]
  /\ columnIndices = [p \in Procs |-> EmptyMap]
  /\ vv = [p \in Procs |-> EmptyMap]
  /\ outcome = [p \in Procs |-> "none"]

NextRemap == \E p \in Procs : FindDims(p) \/ ComputeColumnIndices(p) \/ Remap(p)

SpecRemap == InitRemap /\ [][NextRemap]_vars

\* Under Spec, the state in which call 1 reaches line 178 is the one InitRemap
\* describes, after the history SuccessLog.
RemapEntryState ==
  pc[1] = "findDims" =>
    /\ gpuBuild /\ solverType = "CHOLESKY"
    /\ ptr[1] = SuccessPtr /\ heap = {}
    /\ handles = {<<1, "solverHandle">>, <<1, "descrA">>}
    /\ cols[1] = AssembledCols(gfg, ordering)
    /\ nnz[1] = AssembledNonZeros(gfg, ordering)
    /\ singularity[1] = -1
    /\ x[1] = Solution(AssembledCols(gfg, ordering))
    /\ dims[1] = EmptyMap /\ columnIndices[1] = EmptyMap /\ vv[1] = EmptyMap
    /\ outcome[1] = "none"
    /\ log[1] = SuccessLog(AssembledCols(gfg, ordering), AssembledNonZeros(gfg, ordering))

(* ------------------------- history vocabulary -------------------------- *)
\* The device addresses call p obtained from cudaMalloc.
AllocatedBy(p) ==
  {log[p][i].addr : i \in {j \in DOMAIN log[p] :
                             log[p][j].op = "cudaMalloc" /\ log[p][j].ok}}

\* The device buffers of call p that are still allocated.
LiveBuffers(p) == AllocatedBy(p) \cap heap

\* The positions of the cudaFree calls of call p.
FreeCalls(p) == {i \in DOMAIN log[p] : log[p][i].op = "cudaFree"}

\* Call p has ended with an error.
Failed(p) == pc[p] = "done" /\ outcome[p] \in Errors

\* Call p has returned its VectorValues.
Returned(p) == pc[p] = "done" /\ outcome[p] = "returned"

\* The step of solve a history entry belongs to: 1 assembly, 2 device upload,
\* 3 compute, 4 download, 5 release.
StepRank(e) ==
  CASE e.op = "assemble" -> 1
    [] e.op \in {"cudaMalloc", "memcpyH2D"} -> 2
    [] e.op = "cusolverSpDcsrlsvchol" -> 3
    [] e.op = "memcpyD2H" -> 4
    [] e.op = "cudaFree" -> 5

(* ------------------------------- claims -------------------------------- *)
\* The last history entry of call p is a failed step on x_gpu or b_gpu: the
\* allocation of x_gpu or b_gpu, the copy of b, the Cholesky primitive or the
\* copy of x.
FailedAfterUpload(p) ==
  /\ Failed(p)
  /\ log[p] # <<>>
  /\ ~log[p][Len(log[p])].ok
  /\ log[p][Len(log[p])].buf \in {"x_gpu", "b_gpu"}

\* C1: when solve ends with the error of a step that failed after a device
\* buffer was allocated (allocation of x_gpu or b_gpu, copy of b, Cholesky
\* status, copy of x), no device buffer allocated by the call is still
\* allocated.
C1_ErrorPathsFreeBuffers ==
  \A p \in Procs : FailedAfterUpload(p) => LiveBuffers(p) = {}

\* The number of cudaFree calls of call p on address a.
FreeCount(p, a) == Cardinality({i \in FreeCalls(p) : log[p][i].addr = a})

\* C2: when solve ends with the allocation error of the row, column or value
\* array, every allocation that succeeded before it has been freed exactly
\* once, and no cudaFree was called on anything that was not allocated.
C2_PartialAllocationsFreed ==
  \A p \in Procs :
    (Failed(p) /\ outcome[p] = ErrOutOfMemory) =>
      /\ \A a \in AllocatedBy(p) : FreeCount(p, a) = 1
      /\ \A i \in FreeCalls(p) : log[p][i].addr \in AllocatedBy(p)
      /\ LiveBuffers(p) = {}

\* Call p has done nothing but enter solve: no assembly, no handle, no
\* descriptor, no device call, no result.
NothingAttempted(p) ==
  /\ pc[p] \in {"idle", "solve", "done"}
  /\ log[p] = <<>>
  /\ {h \in handles : h[1] = p} = {}
  /\ AllocatedBy(p) = {} /\ ptr[p] = NullPtr
  /\ cols[p] = 0 /\ nnz[p] = 0
  /\ vv[p] = EmptyMap /\ outcome[p] # "returned"

\* C3 (as stated): with solver type QR, solve ends with the unsupported-mode
\* error and never assembles, creates a handle or descriptor, or allocates.
C3_QrRejectedAnyBuild ==
  solverType = "QR" =>
    \A p \in Procs :
      NothingAttempted(p) /\ (pc[p] = "done" => outcome[p] = ErrUnsupportedMode)

\* C3 (amended): in a build with GPU support and with solver type QR, solve on
\* any factor graph ends with the unsupported-mode error and never assembles,
\* creates a handle or descriptor, or allocates.
C3_QrRejected ==
  (gpuBuild /\ solverType = "QR") =>
    \A p \in Procs :
      NothingAttempted(p) /\ (pc[p] = "done" => outcome[p] = ErrUnsupportedMode)

\* A QR solve on the empty graph has ended in a GPU build.
C3_Witness ==
  gpuBuild /\ solverType = "QR" /\ gfg = <<>> /\ pc[1] = "done"

\* The Cholesky primitive of call p returned a success status.
CholeskySucceeded(p) ==
  \E i \in DOMAIN log[p] : log[p][i].op = "cusolverSpDcsrlsvchol" /\ log[p][i].ok

\* The cudaFree calls of call p that released a live buffer.
Releases(p) == {i \in FreeCalls(p) : log[p][i].ok /\ log[p][i].addr # 0}

\* C4: when the Cholesky primitive returned success with a singularity index
\* other than -1, solve ends with the singularity error, returns no mapping,
\* and the five device buffers have been freed.
C4_SingularityAfterRelease ==
  \A p \in Procs :
    (pc[p] = "done" /\ CholeskySucceeded(p) /\ singularity[p] # -1) =>
      /\ outcome[p] = ErrSingularity
      /\ vv[p] = EmptyMap
      /\ LiveBuffers(p) = {}
      /\ {log[p][i].buf : i \in Releases(p)} = PtrNames

\* The copy of x from the device succeeded in call p.
DownloadSucceeded(p) ==
  \E i \in DOMAIN log[p] : log[p][i].op = "memcpyD2H" /\ log[p][i].ok

\* What does hold for C4: a call whose copy of x succeeded after a singular
\* factorisation ends with the singularity error, all five buffers freed.
SingularityAfterDownload ==
  \A p \in Procs :
    (pc[p] = "done" /\ DownloadSucceeded(p) /\ singularity[p] # -1) =>
      /\ outcome[p] = ErrSingularity
      /\ vv[p] = EmptyMap
      /\ LiveBuffers(p) = {}
      /\ {log[p][i].buf : i \in Releases(p)} = PtrNames

\* The history of call p never steps back from a later step of solve to an
\* earlier one.
StepsInOrder(p) ==
  \A i, j \in DOMAIN log[p] : i < j => StepRank(log[p][i]) <= StepRank(log[p][j])

\* Call p has started the device upload.
UploadStarted(p) == \E i \in DOMAIN log[p] : StepRank(log[p][i]) = 2

\* C8: the steps of solve occur in the order assembly, upload, compute,
\* download, release, and a call that started the upload has released its
\* device buffers when it ends, also when it ends in an error.
C8_OrderedAndReleased ==
  \A p \in Procs :
    /\ StepsInOrder(p)
    /\ (pc[p] = "done" /\ UploadStarted(p)) => LiveBuffers(p) = {}

\* The order half of C8 alone.
StepsAlwaysInOrder == \A p \in Procs : StepsInOrder(p)

\* C9: in a build without GPU support every call of solve, for every solver
\* type and graph, ends with the backend-unavailable error without assembling
\* anything or returning a mapping.
C9_NoGpuFailsImmediately ==
  ~gpuBuild =>
    \A p \in Procs :
      NothingAttempted(p) /\ (pc[p] = "done" => outcome[p] = ErrBackendUnavailable)

\* A CHOLESKY solve on a non-empty graph has ended in a build without GPU
\* support.
C9_Witness ==
  ~gpuBuild /\ solverType = "CHOLESKY" /\ ReferencedKeys(gfg) # {} /\ pc[1] = "done"

(* --------------------------- remap claims ------------------------------ *)
\* C5: after a successful solve every key referenced by a non-null factor is
\* a key of the returned mapping, and its segment has the length the
\* dimension map records for it.
C5_ReferencedKeysReturned ==
  \A p \in Procs :
    Returned(p) =>
      \A k \in ReferencedKeys(gfg) :
        /\ k \in DOMAIN vv[p]
        /\ k \in DOMAIN dims[p]
        /\ Len(vv[p][k]) = dims[p][k]

\* A solve has returned for a graph that references two keys of different
\* dimensions.
C5_Witness ==
  /\ Returned(1)
  /\ \E k1, k2 \in ReferencedKeys(gfg) : Len(vv[1][k1]) # Len(vv[1][k2])

\* C6: after a successful solve a key of the ordering that no factor
\* references is not a key of the returned mapping.
C6_UnreferencedKeysAbsent ==
  \A p \in Procs :
    Returned(p) =>
      \A k \in Range(ordering) \ ReferencedKeys(gfg) : k \notin DOMAIN vv[p]

\* What the code does for C6: every key of the ordering that no factor
\* references is a key of the returned mapping, with an empty segment.
UnreferencedKeysEmpty ==
  \A p \in Procs :
    Returned(p) =>
      \A k \in Range(ordering) \ ReferencedKeys(gfg) :
        k \in DOMAIN vv[p] /\ vv[p][k] = <<>>

\* The segments of the keys i.. of the ordering, concatenated.
RECURSIVE ConcatSegments(_, _, _)
ConcatSegments(m, ord, i) ==
  IF i > Len(ord) THEN <<>>
  ELSE (IF ord[i] \in DOMAIN m THEN m[ord[i]] ELSE <<>>) \o ConcatSegments(m, ord, i + 1)

\* C7: the returned mapping has a segment for every referenced key, and the
\* segments concatenated in ordering order are the solution vector x.
C7_SegmentsConcatenateToX ==
  \A p \in Procs :
    Returned(p) =>
      /\ ReferencedKeys(gfg) \subseteq DOMAIN vv[p]
      /\ ConcatSegments(vv[p], ordering, 1) = x[p]
      /\ Len(x[p]) = cols[p]

\* A solve has returned for an ordering that lists two referenced keys in
\* descending key order, the first with more than one column.
C7_Witness ==
  /\ Returned(1)
  /\ Len(ordering) >= 2
  /\ ordering[1] > ordering[2]
  /\ {ordering[1], ordering[2]} \subseteq ReferencedKeys(gfg)
  /\ Len(vv[1][ordering[1]]) > 1

\* The sum of d over the first n keys of the ordering.
RECURSIVE PrefixDims(_, _, _)
PrefixDims(d, ord, n) ==
  IF n = 0 THEN 0 ELSE PrefixDims(d, ord, n - 1) + d[ord[n]]

\* The column offset map of call p has been built.
OffsetsBuilt(p) == pc[p] = "remap" \/ Returned(p)

\* C10: the column offset of each ordering key is the sum of the dimensions
\* of the keys before it; offsets never decrease along the ordering (and
\* increase past every key of positive dimension), and the intervals
\* [offset, offset + dim) partition [0, totalColumns).
C10_OffsetsPartitionColumns ==
  \A p \in Procs :
    OffsetsBuilt(p) =>
      LET ci == columnIndices[p]
          d  == dims[p]
          n  == Len(ordering)
      IN  /\ DOMAIN ci = Range(ordering)
          /\ \A i \in 1..n : ci[ordering[i]] = PrefixDims(d, ordering, i - 1)
          /\ \A i, j \in 1..n : i < j => ci[ordering[i]] <= ci[ordering[j]]
          /\ \A i, j \in 1..n :
               (i < j /\ d[ordering[i]] > 0) => ci[ordering[i]] < ci[ordering[j]]
          /\ \A c \in 0..(cols[p] - 1) :
               Cardinality({i \in 1..n : ci[ordering[i]] <= c
                                         /\ c < ci[ordering[i]] + d[ordering[i]]}) = 1
          /\ \A i \in 1..n : ci[ordering[i]] + d[ordering[i]] <= cols[p]

\* The offsets have been built for an ordering of two referenced keys, the
\* second at a column offset of 2 or more.
C10_Witness ==
  /\ OffsetsBuilt(1)
  /\ Len(ordering) >= 2
  /\ {ordering[1], ordering[2]} \subseteq ReferencedKeys(gfg)
  /\ columnIndices[1][ordering[2]] >= 2

(* -------------------- the two-call specification ----------------------- *)
\* Two calls of solve on the same solver and the same graph, run in any
\* interleaving of their steps (the sequential runs among them): a solver
\* with ordering <<1>> and a graph of at most one factor.
InitConc ==
  /\ gpuBuild \in BOOLEAN
  /\ solverType \in SolverTypes
  /\ ordering = <<1>>
  /\ gfg \in GraphsOver(Range(ordering), 1)
  /\ pc = [p \in Procs |-> "solve"]
  /\ InitLocals

SpecConc == InitConc /\ [][Next]_vars

\* The addresses call p passed to a cudaFree that released a buffer.
FreedBy(p) == {log[p][i].addr : i \in Releases(p)}

\* The device buffers call p has acquired and not released itself.  (A call
\* makes its five allocations before its first release, so its addresses are
\* distinct.)
HeldBy(p) == AllocatedBy(p) \ FreedBy(p)

\* No device buffer is held by two calls, and a buffer a call holds is
\* allocated: no other call has freed it, and a call releases only addresses
\* it allocated.
BuffersExclusive ==
  /\ \A p, q \in Procs : p # q => HeldBy(p) \cap HeldBy(q) = {}
  /\ \A p \in Procs : HeldBy(p) \subseteq heap /\ FreedBy(p) \subseteq AllocatedBy(p)

\* C11: for any interleaving of two calls of solve, the device buffers of the
\* two calls are disjoint, a buffer is freed only by the call that allocated
\* it, and a call that has ended holds no device buffer.
C11_BuffersOwnedAndReleased ==
  /\ BuffersExclusive
  /\ \A p \in Procs : pc[p] = "done" => HeldBy(p) = {}

\* The part of C11 that holds: buffers are exclusive, and a call that has
\* returned its result holds no device buffer.
BuffersReleasedOnReturn ==
  /\ BuffersExclusive
  /\ \A p \in Procs : Returned(p) => HeldBy(p) = {}

(* ------------------------ no retry, no silent error -------------------- *)
\* The positions of a call of solve, in program order.
StepOrder ==
  <<"solve", "assemble", "cusolverSpCreate", "cusparseCreateMatDescr",
    "cusparseSetMatType", "mallocRow", "mallocCol", "mallocVal", "memcpyVal",
    "memcpyRow", "memcpyCol", "mallocX", "mallocB", "memcpyB", "cholesky",
    "download", "free", "checkSingularity", "findDims", "columnIndices",
    "remap", "done">>

\* The rank of position l in program order.
Position(l) == CHOOSE i \in DOMAIN StepOrder : StepOrder[i] = l

\* No device call appears twice in the history of call p.
NoCallRepeated(p) ==
  \A i, j \in DOMAIN log[p] :
    (log[p][i].op = log[p][j].op /\ log[p][i].buf = log[p][j].buf) => i = j

\* A device call of call p reported a non-success status.
SomeCallFailed(p) == \E i \in DOMAIN log[p] : ~log[p][i].ok

\* Every step of call p moves it strictly forward in program order, and
\* nothing of the call's history changes without such a move.
AdvancesOnly(p) ==
  /\ pc'[p] # pc[p] => Position(pc'[p]) > Position(pc[p])
  /\ log'[p] # log[p] => pc'[p] # pc[p]

CallsOn(p, op, b) ==
  {i \in DOMAIN log[p] : log[p][i].op = op /\ log[p][i].buf = b}

\* Call p is past line 171 with every device step before it successful.
PastRelease(p) == DownloadSucceeded(p) /\ pc[p] # "free"

\* Buffer b of call p was allocated exactly once and freed exactly once, at
\* the allocated address, after the download of x, with no use after the free.
AllocatedOnceFreedOnce(p, b) ==
  /\ Cardinality(CallsOn(p, "cudaMalloc", b)) = 1
  /\ Cardinality(CallsOn(p, "cudaFree", b)) = 1
  /\ \A m \in CallsOn(p, "cudaMalloc", b), f \in CallsOn(p, "cudaFree", b) :
       /\ log[p][m].ok /\ log[p][f].ok
       /\ log[p][f].addr = log[p][m].addr /\ log[p][m].addr # 0
       /\ log[p][m].addr \notin heap
       /\ \A d \in CallsOn(p, "memcpyD2H", "x_gpu") : d < f
       /\ \A i \in DOMAIN log[p] : (log[p][i].buf = b /\ i # f) => (m <= i /\ i < f)

\* C13: on the all-success path each of the five device buffers is allocated
\* exactly once and freed exactly once, every free comes after the download
\* of x, and no buffer is used after it was freed; before line 167 nothing
\* has been freed.
C13_AllocatedOnceFreedOnce ==
  \A p \in Procs :
    /\ PastRelease(p) => \A b \in PtrNames : AllocatedOnceFreedOnce(p, b)
    /\ (DownloadSucceeded(p) /\ pc[p] = "free") => FreeCalls(p) = {}

\* A call on a system with at least one non-zero has returned with all five
\* buffers allocated and released.
C13_Witness ==
  /\ Returned(1) /\ nnz[1] >= 1
  /\ \A b \in PtrNames : CallsOn(1, "cudaFree", b) # {} /\ CallsOn(1, "cudaMalloc", b) # {}

(* --------------------------- the dimension map ------------------------- *)
\* The non-null factors of graph g that reference key k, by position.
FactorsOf(g, k) == {i \in DOMAIN g : ~g[i].isNull /\ k \in Range(g[i].keys)}

\* The dimension of key k reported by the last factor of g that references it.
LastReportedDim(g, k) ==
  LET last == CHOOSE i \in FactorsOf(g, k) : \A j \in FactorsOf(g, k) : j <= i
      f    == g[last]
      at   == CHOOSE n \in DOMAIN f.keys : f.keys[n] = k
  IN  f.dim[at]

\* Call p has run the loop of lines 180-188 and not yet line 198.
DimsBuilt(p) == pc[p] = "columnIndices"

\* C14: the dimension map built by the loop over the factors has exactly the
\* keys referenced by non-null factors, each with the dimension reported by
\* the last factor in graph order that references it; these entries keep
\* their values until solve returns.
C14_DimsLastWriterWins ==
  \A p \in Procs :
    /\ DimsBuilt(p) => DOMAIN dims[p] = ReferencedKeys(gfg)
    /\ (DimsBuilt(p) \/ OffsetsBuilt(p)) =>
         \A k \in ReferencedKeys(gfg) :
           k \in DOMAIN dims[p] /\ dims[p][k] = LastReportedDim(gfg, k)

\* The map is built for a graph in which two factors report different
\* dimensions for the same key.
C14_Witness ==
  /\ DimsBuilt(1)
  /\ \E k \in Keys : \E i, j \in FactorsOf(gfg, k) :
       /\ i < j
       /\ LET ni == CHOOSE n \in DOMAIN gfg[i].keys : gfg[i].keys[n] = k
              nj == CHOOSE n \in DOMAIN gfg[j].keys : gfg[j].keys[n] = k
          IN  gfg[i].dim[ni] # gfg[j].dim[nj]

(* ----------------------- the upload of the matrix ---------------------- *)
\* The three device arrays of the matrix, filled by
\* EigenSparseToCuSparseTranspose.
MatrixBuffers == {"AtA_row", "AtA_col", "AtA_val"}

\* The length of each array of the matrix of call p: num_outer for the
\* outer-index array, num_non0 for the inner-index and value arrays.
ArrayLen(p, b) == IF b = "AtA_row" THEN cols[p] + 1 ELSE nnz[p]

\* The transfers to the arrays of the matrix in the history of call p.
MatrixTransfers(p) ==
  {i \in DOMAIN log[p] :
     log[p][i].op = "memcpyH2D" /\ log[p][i].buf \in MatrixBuffers}

\* EigenSparseToCuSparseTranspose has returned in call p.
TransposeDone(p) ==
  \E i \in CallsOn(p, "memcpyH2D", "AtA_col") : log[p][i].ok

\* C15: every transfer of EigenSparseToCuSparseTranspose comes after the
\* three successful allocations, has the length of its array (numCols+1 for
\* the outer index, nonZeros for the inner index and the values) and goes to
\* the buffer allocated with that length; when the function has returned,
\* exactly three transfers were made, one per array.
C15_ThreeTransfersAfterAllocations ==
  \A p \in Procs :
    /\ \A i \in MatrixTransfers(p) :
         /\ \A b \in MatrixBuffers :
              \E m \in CallsOn(p, "cudaMalloc", b) : m < i /\ log[p][m].ok
         /\ log[p][i].len = ArrayLen(p, log[p][i].buf)
         /\ \E m \in CallsOn(p, "cudaMalloc", log[p][i].buf) :
              /\ log[p][m].ok
              /\ log[p][m].len = log[p][i].len
              /\ log[p][m].addr = log[p][i].addr
    /\ TransposeDone(p) =>
         /\ Cardinality(MatrixTransfers(p)) = 3
         /\ \A b \in MatrixBuffers :
              \E i \in CallsOn(p, "memcpyH2D", b) : log[p][i].ok

\* The matrix of a system with at least one non-zero has been uploaded.
C15_Witness ==
  /\ pc[1] = "mallocX" /\ TransposeDone(1)
  /\ nnz[1] >= 1 /\ cols[1] + 1 # nnz[1]

(* ------------------------- one ordering per solver --------------------- *)
\* The first column of the block of the i-th ordering key in the matrix
\* assembled for graph g under ordering ord.
AssembledColumnOf(g, ord, i) ==
  LET d == DimsLoop(g, 1, EmptyMap)
  IN  SumDims(d, ord, 1) - SumDims(d, ord, i)

\* C16: the column offsets of the remap are those of the columns assembled
\* under the solver's ordering, key by key, and no step of solve changes the
\* solver's ordering or its type.
C16_SameOrderingThroughout ==
  /\ [](\A p \in Procs :
          OffsetsBuilt(p) =>
            /\ DOMAIN columnIndices[p] = Range(ordering)
            /\ \A i \in 1..Len(ordering) :
                 columnIndices[p][ordering[i]] = AssembledColumnOf(gfg, ordering, i)
            /\ cols[p] = AssembledCols(gfg, ordering))
  /\ [][ordering' = ordering /\ solverType' = solverType]_vars

\* A call has returned for an ordering that is not in key order, both keys
\* referenced.
C16_Witness ==
  /\ Returned(1)
  /\ ordering = <<2, 1>>
  /\ ReferencedKeys(gfg) = {1, 2}
  /\ columnIndices[1][1] > 0

(* --------------------- the handle and the descriptor ------------------- *)
\* The cuSolver handle and cuSPARSE descriptor created by call p and live.
HandlesOf(p) == {h \in handles : h[1] = p}

\* C17: when a call of solve has ended, by a return or by an error, no
\* handle and no descriptor created by it is live.
C17_HandlesDestroyed ==
  \A p \in Procs : pc[p] = "done" => HandlesOf(p) = {}

\* What the code does for C17: no step of solve destroys a handle or a
\* descriptor, and a call that returned its result left both live.
HandlesNeverDestroyed ==
  /\ [](\A p \in Procs : Returned(p) => Cardinality(HandlesOf(p)) = 2)
  /\ [][handles \subseteq handles']_vars

=============================================================================
